---- MODULE Spec2Model ----
(***************************************************************************)
(* A model of tse-api: the fetch-retry loop TseApi.get, the static and     *)
(* live parsers of TseApi, the defensive wrapper, and the Observer queue   *)
(* of models.py.                                                           *)
(*                                                                         *)
(* Text is modelled as a sequence of tokens.  A token is either a run of   *)
(* decimal digits (t = "num", v = its value) or a piece of text that the   *)
(* code treats as a unit (a separator, a state code, an error marker).     *)
(* str.split, the slice [:-1], str.strip, int() and the substring test     *)
(* `in` are computed on these sequences.                                   *)
(***************************************************************************)
EXTENDS Integers, Sequences, FiniteSets, TLC

VARIABLES
    g_pc,       \* TseApi.get: where the call is (idle/requesting/sleeping/returned/raised)
    g_http,     \* TseApi.get: the outcome of the last requests.get
    g_tries,    \* TseApi.get: completed loop iterations that ended in a sleep (saturates)
    g_slept,    \* TseApi.get: which sleep_* interval the last failure slept
    g_result,   \* TseApi.get: the value handed to the caller
    cache,      \* TseApi._static_instrument_data: ins_code -> heap index of the record (0: no key)
    statics,    \* the StaticInstrumentInfo objects made so far (the heap index is the identity)
    snaps,      \* the Instrument objects made so far (the heap index is the identity)
    alive,      \* FALSE once defensive has killed the process
    pc,         \* per thread: where its call is
    frame,      \* per thread: the running call and its locals
    ret,        \* per thread: what its last call gave the caller
    o_queue,    \* Observer.__queue: the Instruments put and not yet taken (heap indexes)
    o_static,   \* Observer.__static: (instrument_id, date) -> heap index of the interned record
    o_popped,   \* the Instruments Observer.get has returned, in order (heap indexes)
    o_pc        \* Observer.get: where the consumer's call is (idle/polling/sleeping)

getVars == <<g_pc, g_http, g_tries, g_slept, g_result>>
heapVars == <<cache, statics, snaps, alive>>
threadVars == <<pc, frame, ret>>
obsVars == <<o_queue, o_static, o_popped, o_pc>>

vars == <<getVars, heapVars, threadVars, obsVars>>

-----------------------------------------------------------------------------
(* Bounds *)

MaxBodyLen == 2
MaxTries == 3
MaxGroups == 6      \* groups in a best-limit segment
MaxPuts == 3        \* Instruments handed to Observer.put
MaxStatics == 2     \* StaticInstrumentInfo objects on the heap
MaxSnaps == 2       \* Instrument objects on the heap
MaxRetry == 2       \* retry_number passed to get_static_data_retry

Threads == {"t1", "t2"}
InsCodes == {"i1", "i2"}

-----------------------------------------------------------------------------
(* Text *)

Tok(s) == [t |-> s, v |-> 0]
Num(n) == [t |-> "num", v |-> n]

\* `s in text` for a marker s that is one token of the text
Contains(text, s) == \E i \in 1..Len(text) : text[i].t = s

\* str.split(sep): the pieces between the separators; never an empty list
RECURSIVE Split(_, _)
Split(text, sep) ==
    LET at == { i \in 1..Len(text) : text[i].t = sep }
    IN IF at = {} THEN << text >>
       ELSE LET i == CHOOSE x \in at : \A y \in at : x <= y
            IN << SubSeq(text, 1, i - 1) >>
               \o Split(SubSeq(text, i + 1, Len(text)), sep)

\* sep.join(pieces)
RECURSIVE Join(_, _)
Join(pieces, sep) ==
    IF pieces = << >> THEN << >>
    ELSE IF Len(pieces) = 1 THEN pieces[1]
    ELSE pieces[1] \o << Tok(sep) >> \o Join(Tail(pieces), sep)

\* text[:-1]: the text without its last character.  A number of two or more
\* digits loses its last digit; a one-character token goes.
DropLast(text) ==
    IF text = << >> THEN << >>
    ELSE LET n == Len(text)
             last == text[n]
         IN IF last.t = "num" /\ last.v >= 10
            THEN [text EXCEPT ![n] = Num(last.v \div 10)]
            ELSE SubSeq(text, 1, n - 1)

\* str.strip(): leading and trailing blanks removed
RECURSIVE Strip(_)
Strip(text) ==
    IF text = << >> THEN << >>
    ELSE IF text[1].t = " " THEN Strip(Tail(text))
    ELSE IF text[Len(text)].t = " " THEN Strip(SubSeq(text, 1, Len(text) - 1))
    ELSE text

\* A value or the exception raised instead of it
Ok(x) == [exc |-> "", val |-> x]
Raise(e) == [exc |-> e, val |-> 0]

\* int(text): the text must be one run of digits
ParseInt(text) ==
    IF Len(text) = 1 /\ text[1].t = "num" THEN Ok(text[1].v) ELSE Raise("ValueError")

\* seq[i] with Python's 0-based index
Index(seq, i) ==
    IF i + 1 <= Len(seq) THEN [exc |-> "", val |-> seq[i + 1]]
    ELSE [exc |-> "IndexError", val |-> << >>]

\* int(seq[i])
IntAt(seq, i) ==
    IF Index(seq, i).exc # "" THEN Raise(Index(seq, i).exc)
    ELSE ParseInt(Index(seq, i).val)

\* the first exception of a sequence of results evaluated in order, or ""
RECURSIVE FirstExc(_)
FirstExc(results) ==
    IF results = << >> THEN ""
    ELSE IF results[1].exc # "" THEN results[1].exc
    ELSE FirstExc(Tail(results))

-----------------------------------------------------------------------------
(* TseApi.get *)

NoBody == [set |-> FALSE, body |-> <<>>]
NoHttp == [kind |-> "none", status |-> 0, body |-> <<>>]

BodyTokens ==
    { Tok("ok"), Tok("error"), Tok("Too Many Requests"),
      Tok("The service is unavailable"), Tok("Error") }

RECURSIVE TextsUpTo(_, _)
TextsUpTo(toks, n) ==
    IF n = 0 THEN { <<>> }
    ELSE LET shorter == TextsUpTo(toks, n - 1)
         IN shorter \cup { Append(s, x) : s \in shorter, x \in toks }

Bodies == TextsUpTo(BodyTokens, MaxBodyLen)

Statuses == {200, 429, 503}

\* what one requests.get can do: raise Timeout/ReadTimeout, raise ConnectionError,
\* raise some other exception, or give a response
HttpOutcomes ==
    { [kind |-> k, status |-> 0, body |-> <<>>] :
        k \in {"timeout", "connection", "other"} }
    \cup { [kind |-> "response", status |-> s, body |-> b] :
        s \in Statuses, b \in Bodies }

\* a marker test that forgets the generic "Error" marker
HasMarker_NoError(body) ==
    \/ Contains(body, "Too Many Requests")
    \/ Contains(body, "The service is unavailable")

HasMarker(body) ==
    \/ Contains(body, "Too Many Requests")
    \/ Contains(body, "The service is unavailable")
    \/ Contains(body, "Error")

\* a loop body whose except clauses miss ConnectionError
GetHandle_ConnRaises(o) ==
    IF o.kind = "response"
    THEN IF o.status # 200
         THEN [pc |-> "sleeping", slept |-> "sleep_non_200", result |-> NoBody]
         ELSE IF HasMarker(o.body)
         THEN [pc |-> "sleeping", slept |-> "sleep_tse_errors", result |-> NoBody]
         ELSE [pc |-> "returned", slept |-> "none",
               result |-> [set |-> TRUE, body |-> o.body]]
    ELSE IF o.kind = "timeout"
    THEN [pc |-> "sleeping", slept |-> "sleep_timeout", result |-> NoBody]
    ELSE [pc |-> "raised", slept |-> "none", result |-> NoBody]

\* one iteration of the while loop of get on outcome o
GetHandle(o) ==
    IF o.kind = "response"
    THEN IF o.status # 200
         THEN [pc |-> "sleeping", slept |-> "sleep_non_200", result |-> NoBody]
         ELSE IF HasMarker(o.body)
         THEN [pc |-> "sleeping", slept |-> "sleep_tse_errors", result |-> NoBody]
         ELSE [pc |-> "returned", slept |-> "none",
               result |-> [set |-> TRUE, body |-> o.body]]
    ELSE IF o.kind = "timeout"
    THEN [pc |-> "sleeping", slept |-> "sleep_timeout", result |-> NoBody]
    ELSE IF o.kind = "connection"
    THEN [pc |-> "sleeping", slept |-> "sleep_connection_error", result |-> NoBody]
    ELSE [pc |-> "raised", slept |-> "none", result |-> NoBody]

\* Observer.__init__: an empty queue and an empty dict
ObserverInit ==
    /\ o_queue = << >>
    /\ o_static = [k \in {} |-> 0]
    /\ o_popped = << >>
    /\ o_pc = "idle"

GetInit ==
    /\ ObserverInit
    /\ g_pc = "idle"
    /\ g_http = NoHttp
    /\ g_tries = 0
    /\ g_slept = "none"
    /\ g_result = NoBody
    /\ cache = [i \in InsCodes |-> 0]
    /\ statics = << >>
    /\ snaps = << >>
    /\ alive = TRUE
    /\ pc = [t \in Threads |-> "idle"]
    /\ frame = [t \in Threads |-> [fn |-> "none"]]
    /\ ret = [t \in Threads |-> [kind |-> "none"]]

\* a caller enters get
GetCall ==
    /\ g_pc \in {"idle", "returned", "raised"}
    /\ g_pc' = "requesting"
    /\ g_http' = NoHttp
    /\ g_tries' = 0
    /\ g_slept' = "none"
    /\ g_result' = NoBody
    /\ UNCHANGED <<heapVars, threadVars>>
    /\ UNCHANGED obsVars

\* requests.get ends with outcome o and the loop body handles it
GetRequest(o) ==
    /\ g_pc = "requesting"
    /\ g_http' = o
    /\ g_pc' = GetHandle(o).pc
    /\ g_slept' = GetHandle(o).slept
    /\ g_result' = GetHandle(o).result
    /\ UNCHANGED <<g_tries, heapVars, threadVars>>
    /\ UNCHANGED obsVars

\* time.sleep returns and the loop goes round
GetWake ==
    /\ g_pc = "sleeping"
    /\ g_pc' = "requesting"
    /\ g_tries' = IF g_tries < MaxTries THEN g_tries + 1 ELSE g_tries
    /\ UNCHANGED <<g_http, g_slept, g_result, heapVars, threadVars>>
    /\ UNCHANGED obsVars

GetNext ==
    \/ GetCall
    \/ \E o \in HttpOutcomes : GetRequest(o)
    \/ GetWake

SpecGet == GetInit /\ [][GetNext]_vars

SpecGetLive == GetInit /\ [][GetNext]_vars /\ WF_vars(GetWake)

-----------------------------------------------------------------------------
(* Record types of models.py.  A mutable object made while a snapshot is   *)
(* built carries `own`, the heap index of the snapshot it was made for:    *)
(* two objects are the same instance iff they have the same owner and      *)
(* place.                                                                  *)

\* models.State: the values the enum accepts
StateValues == {"A", "AG", "AS", "AR", "I", "IG", "IS", "IR", ""}

\* models.State(text): the member with that value, or ValueError
State(text) ==
    LET code == IF text = << >> THEN ""
                ELSE IF Len(text) = 1 THEN text[1].t
                ELSE "?"
    IN IF code \in StateValues THEN [exc |-> "", val |-> code]
       ELSE [exc |-> "ValueError", val |-> "?"]

BestLimit(own, price, vol, count) ==
    [own |-> own, price |-> price, vol |-> vol, count |-> count]

RealLegal(own, real_vol, real_count, legal_vol, legal_count) ==
    [none |-> FALSE, own |-> own, real_vol |-> real_vol, real_count |-> real_count,
     legal_vol |-> legal_vol, legal_count |-> legal_count]

\* None where a RealLegal is expected
NoneRealLegal ==
    [none |-> TRUE, own |-> 0, real_vol |-> 0, real_count |-> 0,
     legal_vol |-> 0, legal_count |-> 0]

\* a Python int, or a str where the code leaves text unconverted
IntValue(n) == [kind |-> "int", int |-> n, text |-> << >>]
StrValue(text) == [kind |-> "str", int |-> 0, text |-> text]

-----------------------------------------------------------------------------
(* TseApi.__get_best_limits *)

\* one pass of the for loop: a group "c@v@p@p@v@c" as a buy and a sell rung
BestLimitGroup(bl_data, own) ==
    LET parts == Split(bl_data, "@")
        bl == [i \in 1..Len(parts) |-> ParseInt(parts[i])]
    IN IF FirstExc(bl) # ""
       THEN [exc |-> FirstExc(bl), buy |-> BestLimit(own, 0, 0, 0),
             sell |-> BestLimit(own, 0, 0, 0)]
       ELSE IF Len(bl) < 6
       THEN [exc |-> "IndexError", buy |-> BestLimit(own, 0, 0, 0),
             sell |-> BestLimit(own, 0, 0, 0)]
       ELSE [exc |-> "",
             buy |-> BestLimit(own, bl[3].val, bl[2].val, bl[1].val),
             sell |-> BestLimit(own, bl[4].val, bl[5].val, bl[6].val)]

\* a padding loop that counts to 4
PadCount_Four(n) == IF 4 - n > 0 THEN 4 - n ELSE 0

\* range(5 - len(best_limits)) is empty when there are 5 groups or more
PadCount(n) == IF 5 - n > 0 THEN 5 - n ELSE 0

GetBestLimits(all_data, own) ==
    IF Index(all_data, 2).exc # ""
    THEN [exc |-> "IndexError", buy |-> << >>, sell |-> << >>]
    ELSE
    LET sp == Split(DropLast(Index(all_data, 2).val), ",")
        best_limits == IF sp = << << >> >> THEN << >> ELSE sp
        groups == [i \in 1..Len(best_limits) |-> BestLimitGroup(best_limits[i], own)]
        pad == [i \in 1..PadCount(Len(best_limits)) |-> BestLimit(own, 0, 0, 0)]
    IN IF FirstExc(groups) # ""
       THEN [exc |-> FirstExc(groups), buy |-> << >>, sell |-> << >>]
       ELSE [exc |-> "",
             buy |-> [i \in 1..Len(groups) |-> groups[i].buy] \o pad,
             sell |-> [i \in 1..Len(groups) |-> groups[i].sell] \o pad]

-----------------------------------------------------------------------------
(* TseApi.__get_reallegal *)

GetRealLegal(all_data, own) ==
    IF Index(all_data, 4).exc # ""
    THEN [exc |-> "IndexError", buy |-> NoneRealLegal, sell |-> NoneRealLegal]
    ELSE IF Index(all_data, 4).val = << >>
    THEN [exc |-> "", buy |-> NoneRealLegal, sell |-> NoneRealLegal]
    ELSE
    LET parts == Split(Index(all_data, 4).val, ",")
        data == [i \in 1..Len(parts) |-> ParseInt(parts[i])]
    IN IF FirstExc(data) # ""
       THEN [exc |-> FirstExc(data), buy |-> NoneRealLegal, sell |-> NoneRealLegal]
       ELSE IF Len(data) < 10
       THEN [exc |-> "IndexError", buy |-> NoneRealLegal, sell |-> NoneRealLegal]
       ELSE [exc |-> "",
             buy |-> RealLegal(own, data[1].val, data[6].val, data[2].val, data[7].val),
             sell |-> RealLegal(own, data[4].val, data[9].val, data[5].val, data[10].val)]

-----------------------------------------------------------------------------
(* TseApi.__check_data *)

\* a __check_data that lets the IndexError of data[1] through
CheckData_IndexErrorEscapes(data) ==
    IF Index(data, 0).exc # ""
    THEN [exc |-> "IndexError", last_trade_date |-> << >>, state |-> "?"]
    ELSE IF Index(data, 1).exc # ""
    THEN [exc |-> "IndexError", last_trade_date |-> << >>, state |-> "?"]
    ELSE [exc |-> State(Strip(Index(data, 1).val)).exc,
          last_trade_date |-> Index(data, 0).val,
          state |-> State(Strip(Index(data, 1).val)).val]

CheckData(data) ==
    IF Index(data, 0).exc # ""
    THEN [exc |-> "IndexError", last_trade_date |-> << >>, state |-> "?"]
    ELSE IF Index(data, 1).exc # ""
    THEN [exc |-> "InstrumentDeleted", last_trade_date |-> << >>, state |-> "?"]
    ELSE [exc |-> State(Strip(Index(data, 1).val)).exc,
          last_trade_date |-> Index(data, 0).val,
          state |-> State(Strip(Index(data, 1).val)).val]

-----------------------------------------------------------------------------
(* TseApi.get_live_data, from the response to the return *)

\* lines 361-367
MarketValue(all_data, final, static_data) ==
    IF static_data.flow # 3
    THEN [exc |-> "", val |-> IntValue(final * static_data.number_of_shares)]
    ELSE IF Index(all_data, 7).exc # ""
    THEN [exc |-> "IndexError", val |-> IntValue(0)]
    ELSE IF Len(Split(Index(all_data, 7).val, "@")) > 1
    THEN [exc |-> "", val |-> StrValue(Split(Index(all_data, 7).val, "@")[2])]
    ELSE [exc |-> "", val |-> IntValue(0)]

NoInstrument ==
    [static_data |-> 0, state |-> "?", last |-> 0, final |-> 0, trades_value |-> 0,
     trades_count |-> 0, trades_vol |-> 0, market_value |-> IntValue(0),
     lowest_price |-> 0, highest_price |-> 0,
     buy_best_limit |-> [own |-> 0, items |-> << >>],
     sell_best_limit |-> [own |-> 0, items |-> << >>],
     buy_reallegal |-> NoneRealLegal, sell_reallegal |-> NoneRealLegal,
     last_trade_date |-> << >>]

LiveRaise(e) ==
    [kind |-> "raise", exc |-> e, yesterday_final |-> 0, inst |-> NoInstrument]

\* lines 330-386 on the text `response`, with static_data the record at heap
\* index `ref` and `own` the heap index the new Instrument gets.  kind is
\* "None" (return None), "raise" (an exception leaves the body) or "instrument".
LiveParse(response, ref, static_data, own) ==
    LET all_data == Split(response, ";")
        data == Split(all_data[1], ",")
        chk == CheckData(data)
        last == IntAt(data, 2)
        final == IntAt(data, 3)
        yesterday_final == IntAt(data, 5)
        today_range_high == IntAt(data, 6)
        today_range_low == IntAt(data, 7)
        trades_count == IntAt(data, 8)
        trades_vol == IntAt(data, 9)
        trades_value == IntAt(data, 10)
        ints == << last, final, yesterday_final, today_range_high, today_range_low,
                   trades_count, trades_vol, trades_value >>
        bl == GetBestLimits(all_data, own)
        rl == GetRealLegal(all_data, own)
        mv == MarketValue(all_data, final.val, static_data)
    IN IF chk.exc = "InstrumentDeleted"
       THEN [kind |-> "None", exc |-> "", yesterday_final |-> 0, inst |-> NoInstrument]
       ELSE IF chk.exc # "" THEN LiveRaise(chk.exc)
       ELSE IF FirstExc(ints) # "" THEN LiveRaise(FirstExc(ints))
       ELSE IF bl.exc # "" THEN LiveRaise(bl.exc)
       ELSE IF rl.exc # "" THEN LiveRaise(rl.exc)
       ELSE IF mv.exc # "" THEN LiveRaise(mv.exc)
       ELSE [kind |-> "instrument", exc |-> "",
             yesterday_final |-> yesterday_final.val,
             inst |->
               [static_data |-> ref, state |-> chk.state, last |-> last.val,
                final |-> final.val, trades_value |-> trades_value.val,
                trades_count |-> trades_count.val, trades_vol |-> trades_vol.val,
                market_value |-> mv.val,
                lowest_price |-> today_range_low.val,
                highest_price |-> today_range_high.val,
                buy_best_limit |-> [own |-> own, items |-> bl.buy],
                sell_best_limit |-> [own |-> own, items |-> bl.sell],
                buy_reallegal |-> rl.buy, sell_reallegal |-> rl.sell,
                last_trade_date |-> chk.last_trade_date]]

\* a wrapper that logs the exception and returns None
Defensive_Swallows(kind) == IF kind = "raise" THEN "None" ELSE kind

\* defensive(): what the caller of the wrapped function gets.  Any exception
\* ends in os.kill(os.getpid(), 9).
Defensive(kind) == IF kind = "raise" THEN "killed" ELSE kind

-----------------------------------------------------------------------------
(* The live endpoint's payloads, in the upstream format: segments joined   *)
(* by ";", the fields of segment 0 by ",", every best-limit group followed *)
(* by ",", the parts of a group by "@".                                    *)

StateTexts ==
    { << Tok("A") >>, << Tok("IS") >>, << >>, << Tok("X") >>, << Tok("A"), Tok(" ") >> }

\* segment 0 with all its fields; `bad` puts text where the final price goes
Segment0(stateText, yesterday, bad) ==
    << << Tok("12:29:59") >>, stateText, << Num(101) >>,
       IF bad THEN << Tok("x") >> ELSE << Num(100) >>,
       << Num(102) >>, << Num(yesterday) >>, << Num(110) >>, << Num(90) >>,
       << Num(8) >>, << Num(9) >>, << Num(10) >> >>

GroupText(g) ==
    Join(<< << Num(g) >>, << Num(10 * g) >>, << Num(1000 - g) >>,
            << Num(1000 + g) >>, << Num(20 * g) >>, << Num(g + 7) >> >>, "@")

\* k groups, each followed by "," as the upstream sends them
RECURSIVE TerminatedGroups(_)
TerminatedGroups(k) ==
    IF k = 0 THEN << >>
    ELSE TerminatedGroups(k - 1) \o GroupText(k) \o << Tok(",") >>

\* k groups; with term = FALSE the "," after the last group is left out
BestLimitText(k, term) ==
    IF term \/ k = 0 THEN TerminatedGroups(k)
    ELSE SubSeq(TerminatedGroups(k), 1, Len(TerminatedGroups(k)) - 1)

RealLegalText(rl) ==
    LET ten == [i \in 1..10 |-> << Num(10 + i) >>]
    IN IF rl = "full" THEN Join(ten, ",")
       ELSE IF rl = "short" THEN Join(SubSeq(ten, 1, 5), ",")
       ELSE << >>

Segment7(s7) ==
    IF s7 = "at" THEN << Num(0), Tok("@"), Num(12345) >> ELSE << Num(0) >>

\* n0 fields in segment 0, k best-limit groups, nseg segments
LiveText(n0, stateText, yesterday, bad, k, term, rl, nseg, s7) ==
    Join(SubSeq(<< Join(SubSeq(Segment0(stateText, yesterday, bad), 1, n0), ","),
                   << Tok("index") >>, BestLimitText(k, term), << >>,
                   RealLegalText(rl), << >>, << >>, Segment7(s7) >>, 1, nseg), ";")

LivePayloads ==
    { LiveText(n0, st, 99, bad, k, term, rl, nseg, s7) :
        n0 \in {0, 1, 2, 5, 11}, st \in StateTexts, bad \in BOOLEAN,
        k \in 0..MaxGroups, term \in BOOLEAN, rl \in {"empty", "full", "short"},
        nseg \in {2, 7, 8}, s7 \in {"plain", "at"} }

\* the few payloads the threads of the concurrent specification are given
LiveBodies ==
    { LiveText(11, << Tok("A") >>, 99, FALSE, 1, TRUE, "full", 8, "plain"),
      LiveText(11, << Tok("A") >>, 98, FALSE, 1, TRUE, "full", 8, "plain"),
      LiveText(1, << >>, 99, FALSE, 0, TRUE, "empty", 8, "plain"),
      LiveText(11, << Tok("A") >>, 99, TRUE, 1, TRUE, "full", 8, "plain") }

-----------------------------------------------------------------------------
(* TseApi.get_static_data: the two bodies and what the parser makes of them *)

\* Endpoint A's body: whether the <script>var TopInst...;</script> block is
\* there, whether it holds every key the parser reads in a form it parses, and
\* the values the model keeps.
NoA == [script |-> FALSE, keys |-> FALSE, instrument_id |-> "", flow |-> 0,
        low |-> 0, high |-> 0]

\* result["InstrumentID"] of the instrument asked for
InstrumentID(ins) == IF ins = "i1" THEN "IRO1" ELSE "IRO2"

GoodA(ins, flow, low, high) ==
    [script |-> TRUE, keys |-> TRUE, instrument_id |-> InstrumentID(ins),
     flow |-> flow, low |-> low, high |-> high]

BodiesA(ins) ==
    { NoA, [NoA EXCEPT !.script = TRUE],
      GoodA(ins, 1, 1001, 1100), GoodA(ins, 3, 950, 999) }

\* a parse that lets the IndexError of the absent pattern through
StaticParseA_Raises(a) ==
    IF ~a.script THEN "IndexError"
    ELSE IF ~a.keys THEN "KeyError"
    ELSE ""

\* lines 101-157: "retry" when the pattern is absent (IndexError, caught),
\* an exception when a key is missing or malformed
StaticParseA(a) ==
    IF ~a.script THEN "retry"
    ELSE IF ~a.keys THEN "KeyError"
    ELSE ""

\* Endpoint B's <td> cells from index 22 on (the cells before are not read)
LabelSector == "industry group"                 \* result[22]
LabelSubsectorCode == "industry subgroup code"  \* result[24]
LabelSubsector == "industry subgroup"           \* result[26]

GoodCells ==
    << Tok(LabelSector), Tok("sector name"), Tok(LabelSubsectorCode), Num(34),
       Tok(LabelSubsector), Tok("subsector name") >>

BodiesB ==
    { GoodCells, << >>, SubSeq(GoodCells, 1, 3),
      [GoodCells EXCEPT ![1] = Tok("other")],
      [GoodCells EXCEPT ![3] = Tok("other")],
      [GoodCells EXCEPT ![4] = Tok("x")],
      [GoodCells EXCEPT ![5] = Tok("other")] }

\* lines 162-175 on the cells from index 22 on
StaticParseB(cells) ==
    IF Len(cells) < 1 THEN "IndexError"
    ELSE IF cells[1].t # LabelSector THEN "AssertionError"
    ELSE IF Len(cells) < 2 THEN "IndexError"
    ELSE IF Len(cells) < 3 THEN "IndexError"
    ELSE IF cells[3].t # LabelSubsectorCode THEN "AssertionError"
    ELSE IF Len(cells) < 4 THEN "IndexError"
    ELSE IF cells[4].t # "num" THEN "ValueError"
    ELSE IF Len(cells) < 5 THEN "IndexError"
    ELSE IF cells[5].t # LabelSubsector THEN "AssertionError"
    ELSE IF Len(cells) < 6 THEN "IndexError"
    ELSE ""

\* datetime.now().strftime("%Y/%M/%d"): year, minute, day
Dates == {"2026/05/04", "2026/06/04"}
\* the one minute in which the threads of the concurrent specification run
Today == {"2026/05/04"}

\* lines 177-203
StaticInstrumentInfo(ins_code, a, date) ==
    [ins_code |-> ins_code, instrument_id |-> a.instrument_id, date |-> date,
     low_threshold |-> a.low, high_threshold |-> a.high, flow |-> a.flow,
     number_of_shares |-> 500, industry_sector_code |-> 27,
     yesterday_final |-> -1]

-----------------------------------------------------------------------------
(* Threads calling one TseApi *)

\* fn: the function called; ins, n: its arguments; i: the loop variable of
\* get_static_data_retry; sd: the local static_data of get_live_data (a heap
\* index); got, a, b: which static endpoint answered last and its body (the
\* local `response` of get_static_data); response: the local `response` of
\* get_live_data; src: the object a clone was asked of
NoFrame == [fn |-> "none", ins |-> "", n |-> 0, i |-> 0, sd |-> 0, got |-> "",
            a |-> NoA, b |-> << >>, response |-> NoBody, src |-> 0,
            rung |-> [own |-> 0, price |-> 0, vol |-> 0, count |-> 0]]
NoRet == [kind |-> "none", ref |-> 0, exc |-> ""]

GetIdle ==
    /\ g_pc = "idle"
    /\ g_http = NoHttp
    /\ g_tries = 0
    /\ g_slept = "none"
    /\ g_result = NoBody

ThreadsIdle ==
    /\ pc = [t \in Threads |-> "idle"]
    /\ frame = [t \in Threads |-> NoFrame]
    /\ ret = [t \in Threads |-> NoRet]

\* TseApi.__init__
ApiInit ==
    /\ GetIdle
    /\ cache = [i \in InsCodes |-> 0]
    /\ statics = << >>
    /\ snaps = << >>
    /\ alive = TRUE
    /\ ThreadsIdle
    /\ ObserverInit

CanCall(t) == alive /\ pc[t] \in {"idle", "done"}

InStatic(t) == pc[t] \in {"static_A", "static_A_sleep", "static_B", "retry_sleep"}
InLive(t) == frame[t].fn = "get_live_data" /\ pc[t] \notin {"idle", "done", "killed"}

StaticRoom ==
    Len(statics) + Cardinality({ t \in Threads : InStatic(t) }) < MaxStatics
SnapRoom ==
    Len(snaps) + Cardinality({ t \in Threads : InLive(t) }) < MaxSnaps

\* a caller enters get_static_data(ins)
CallStatic(t, ins) ==
    /\ CanCall(t) /\ StaticRoom
    /\ pc' = [pc EXCEPT ![t] = "static_A"]
    /\ frame' = [frame EXCEPT ![t] = [NoFrame EXCEPT !.fn = "get_static_data", !.ins = ins]]
    /\ ret' = [ret EXCEPT ![t] = NoRet]
    /\ UNCHANGED <<getVars, heapVars>>
    /\ UNCHANGED obsVars

\* a caller enters get_static_data_retry(ins, n): with an empty range(n) the
\* for loop has no pass and the function ends without a return statement
CallRetry(t, ins, n) ==
    /\ CanCall(t) /\ StaticRoom
    /\ frame' = [frame EXCEPT ![t] =
           [NoFrame EXCEPT !.fn = "get_static_data_retry", !.ins = ins, !.n = n]]
    /\ IF n <= 0
       THEN /\ pc' = [pc EXCEPT ![t] = "done"]
            /\ ret' = [ret EXCEPT ![t] = [kind |-> "None", ref |-> 0, exc |-> ""]]
       ELSE /\ pc' = [pc EXCEPT ![t] = "static_A"]
            /\ ret' = [ret EXCEPT ![t] = NoRet]
    /\ UNCHANGED <<getVars, heapVars>>
    /\ UNCHANGED obsVars

\* a get_live_data that never finds the key
InCache_Never(ins) == FALSE

\* line 320: is ins_code a key of the cache
InCache(ins) == cache[ins] # 0

\* a caller enters get_live_data(ins): lines 320-323
CallLive(t, ins) ==
    /\ CanCall(t) /\ SnapRoom
    /\ InCache(ins) \/ StaticRoom
    /\ IF InCache(ins)
       THEN /\ pc' = [pc EXCEPT ![t] = "live_get"]
            /\ frame' = [frame EXCEPT ![t] =
                   [NoFrame EXCEPT !.fn = "get_live_data", !.ins = ins, !.sd = cache[ins]]]
       ELSE /\ pc' = [pc EXCEPT ![t] = "static_A"]
            /\ frame' = [frame EXCEPT ![t] =
                   [NoFrame EXCEPT !.fn = "get_live_data", !.ins = ins]]
    /\ ret' = [ret EXCEPT ![t] = NoRet]
    /\ UNCHANGED <<getVars, heapVars>>
    /\ UNCHANGED obsVars

\* an exception leaves get_static_data: to the caller, to the except clause of
\* get_static_data_retry, or through get_live_data to defensive
StaticRaises(t, e) ==
    IF frame[t].fn = "get_live_data"
    THEN /\ alive' = (Defensive("raise") # "killed")
         /\ pc' = [pc EXCEPT ![t] =
                IF Defensive("raise") = "killed" THEN "killed" ELSE "done"]
         /\ ret' = [ret EXCEPT ![t] = [kind |-> Defensive("raise"), ref |-> 0, exc |-> e]]
    ELSE IF frame[t].fn = "get_static_data_retry" /\ frame[t].i # frame[t].n - 1
    THEN /\ pc' = [pc EXCEPT ![t] = "retry_sleep"]
         /\ UNCHANGED <<alive, ret>>
    ELSE /\ pc' = [pc EXCEPT ![t] = "done"]
         /\ ret' = [ret EXCEPT ![t] = [kind |-> "raise", ref |-> 0, exc |-> e]]
         /\ UNCHANGED alive

\* self.get of endpoint A returns body a: lines 100-157
StaticA(t, a) ==
    /\ alive /\ pc[t] = "static_A"
    /\ frame' = [frame EXCEPT ![t].got = "A", ![t].a = a, ![t].b = << >>]
    /\ IF StaticParseA(a) = "retry"
       THEN /\ pc' = [pc EXCEPT ![t] = "static_A_sleep"]
            /\ UNCHANGED <<alive, ret>>
       ELSE IF StaticParseA(a) # ""
       THEN StaticRaises(t, StaticParseA(a))
       ELSE /\ pc' = [pc EXCEPT ![t] = "static_B"]
            /\ UNCHANGED <<alive, ret>>
    /\ UNCHANGED <<getVars, cache, statics, snaps>>
    /\ UNCHANGED obsVars

\* time.sleep(1) of line 114 returns
StaticAWake(t) ==
    /\ alive /\ pc[t] = "static_A_sleep"
    /\ pc' = [pc EXCEPT ![t] = "static_A"]
    /\ UNCHANGED <<getVars, heapVars, frame, ret>>
    /\ UNCHANGED obsVars

\* self.get of endpoint B returns cells b at date d: lines 158-205
StaticB(t, b, d) ==
    /\ alive /\ pc[t] = "static_B"
    /\ frame' = [frame EXCEPT ![t].got = "B", ![t].b = b]
    /\ IF StaticParseB(b) # ""
       THEN /\ StaticRaises(t, StaticParseB(b))
            /\ UNCHANGED <<cache, statics>>
       ELSE /\ statics' = Append(statics, StaticInstrumentInfo(frame[t].ins, frame[t].a, d))
            /\ cache' = [cache EXCEPT ![frame[t].ins] = Len(statics) + 1]
            /\ IF frame[t].fn = "get_live_data"
               THEN /\ pc' = [pc EXCEPT ![t] = "live_read"]
                    /\ UNCHANGED ret
               ELSE /\ pc' = [pc EXCEPT ![t] = "done"]
                    /\ ret' = [ret EXCEPT ![t] =
                           [kind |-> "static", ref |-> Len(statics) + 1, exc |-> ""]]
            /\ UNCHANGED alive
    /\ UNCHANGED <<getVars, snaps>>
    /\ UNCHANGED obsVars

\* time.sleep(0.1) of line 86 returns and the for loop takes its next pass
RetryWake(t) ==
    /\ alive /\ pc[t] = "retry_sleep"
    /\ pc' = [pc EXCEPT ![t] = "static_A"]
    /\ frame' = [frame EXCEPT ![t].i = @ + 1]
    /\ UNCHANGED <<getVars, heapVars, ret>>
    /\ UNCHANGED obsVars

\* line 323, after the implicit get_static_data has returned
LiveRead(t) ==
    /\ alive /\ pc[t] = "live_read"
    /\ pc' = [pc EXCEPT ![t] = "live_get"]
    /\ frame' = [frame EXCEPT ![t].sd = cache[frame[t].ins]]
    /\ UNCHANGED <<getVars, heapVars, ret>>
    /\ UNCHANGED obsVars

\* self.get of the live endpoint returns text p: lines 325-386 under defensive
LiveRespond(t, p) ==
    /\ alive /\ pc[t] = "live_get"
    /\ frame' = [frame EXCEPT ![t].response = [set |-> TRUE, body |-> p]]
    /\ LET sd == frame[t].sd
           r == LiveParse(p, sd, statics[sd], Len(snaps) + 1)
           out == Defensive(r.kind)
       IN IF out = "instrument"
          THEN /\ statics' = [statics EXCEPT ![sd].yesterday_final = r.yesterday_final]
               /\ snaps' = Append(snaps, r.inst)
               /\ pc' = [pc EXCEPT ![t] = "done"]
               /\ ret' = [ret EXCEPT ![t] =
                      [kind |-> "instrument", ref |-> Len(snaps) + 1, exc |-> ""]]
               /\ UNCHANGED alive
          ELSE /\ alive' = (out # "killed")
               /\ pc' = [pc EXCEPT ![t] = IF out = "killed" THEN "killed" ELSE "done"]
               /\ ret' = [ret EXCEPT ![t] = [kind |-> out, ref |-> 0, exc |-> r.exc]]
               /\ UNCHANGED <<statics, snaps>>
    /\ UNCHANGED <<getVars, cache>>
    /\ UNCHANGED obsVars

-----------------------------------------------------------------------------
(* clone *)

\* StaticInstrumentInfo.clone: a new object with every field copied
StaticClone(self) ==
    [ins_code |-> self.ins_code, instrument_id |-> self.instrument_id,
     date |-> self.date, low_threshold |-> self.low_threshold,
     high_threshold |-> self.high_threshold, flow |-> self.flow,
     number_of_shares |-> self.number_of_shares,
     industry_sector_code |-> self.industry_sector_code,
     yesterday_final |-> self.yesterday_final]

\* Instrument.clone: `own` is the heap index of the copy, static_ref that of
\* the copy of its static_data; self.buy_reallegal.real_vol on None raises
InstrumentClone(self, own, static_ref) ==
    IF self.buy_reallegal.none \/ self.sell_reallegal.none
    THEN [exc |-> "AttributeError", inst |-> NoInstrument]
    ELSE [exc |-> "",
          inst |->
            [static_data |-> static_ref, state |-> self.state, last |-> self.last,
             final |-> self.final, trades_value |-> self.trades_value,
             trades_count |-> self.trades_count, trades_vol |-> self.trades_vol,
             market_value |-> self.market_value,
             lowest_price |-> self.lowest_price,
             highest_price |-> self.highest_price,
             buy_best_limit |->
               [own |-> own,
                items |-> [j \in 1..Len(self.buy_best_limit.items) |->
                    BestLimit(own, self.buy_best_limit.items[j].price,
                              self.buy_best_limit.items[j].vol,
                              self.buy_best_limit.items[j].count)]],
             sell_best_limit |->
               [own |-> own,
                items |-> [j \in 1..Len(self.sell_best_limit.items) |->
                    BestLimit(own, self.sell_best_limit.items[j].price,
                              self.sell_best_limit.items[j].vol,
                              self.sell_best_limit.items[j].count)]],
             buy_reallegal |->
               RealLegal(own, self.buy_reallegal.real_vol, self.buy_reallegal.real_count,
                         self.buy_reallegal.legal_vol, self.buy_reallegal.legal_count),
             sell_reallegal |->
               RealLegal(own, self.sell_reallegal.real_vol, self.sell_reallegal.real_count,
                         self.sell_reallegal.legal_vol, self.sell_reallegal.legal_count),
             last_trade_date |-> self.last_trade_date]]

-----------------------------------------------------------------------------
(* get_buy_queue, get_sell_queue *)

\* a get_buy_queue that compares with the low threshold
GetBuyQueue_LowThreshold(self, static_data) ==
    IF self.buy_best_limit.items = << >> THEN [exc |-> "IndexError", val |-> BestLimit(0, 0, 0, 0)]
    ELSE IF static_data.low_threshold = self.buy_best_limit.items[1].price
    THEN [exc |-> "", val |-> BestLimit(0, self.buy_best_limit.items[1].price,
                                        self.buy_best_limit.items[1].vol,
                                        self.buy_best_limit.items[1].count)]
    ELSE [exc |-> "", val |-> BestLimit(0, 0, 0, 0)]

\* Instrument.get_buy_queue: the BestLimit it builds belongs to no Instrument
\* (own = 0); buy_best_limit[0] of an empty list raises IndexError
GetBuyQueue(self, static_data) ==
    IF self.buy_best_limit.items = << >> THEN [exc |-> "IndexError", val |-> BestLimit(0, 0, 0, 0)]
    ELSE IF static_data.high_threshold = self.buy_best_limit.items[1].price
    THEN [exc |-> "", val |-> BestLimit(0, self.buy_best_limit.items[1].price,
                                        self.buy_best_limit.items[1].vol,
                                        self.buy_best_limit.items[1].count)]
    ELSE [exc |-> "", val |-> BestLimit(0, 0, 0, 0)]

\* Instrument.get_sell_queue
GetSellQueue(self, static_data) ==
    IF self.sell_best_limit.items = << >> THEN [exc |-> "IndexError", val |-> BestLimit(0, 0, 0, 0)]
    ELSE IF static_data.low_threshold = self.sell_best_limit.items[1].price
    THEN [exc |-> "", val |-> BestLimit(0, self.sell_best_limit.items[1].price,
                                        self.sell_best_limit.items[1].vol,
                                        self.sell_best_limit.items[1].count)]
    ELSE [exc |-> "", val |-> BestLimit(0, 0, 0, 0)]

\* a caller asks the Instrument at heap index k for its buy or its sell queue
CallQueue(t, k, side) ==
    /\ CanCall(t)
    /\ k \in 1..Len(snaps)
    /\ pc' = [pc EXCEPT ![t] = "done"]
    /\ LET r == IF side = "buy"
                THEN GetBuyQueue(snaps[k], statics[snaps[k].static_data])
                ELSE GetSellQueue(snaps[k], statics[snaps[k].static_data])
       IN /\ frame' = [frame EXCEPT ![t] =
                 [NoFrame EXCEPT !.fn = IF side = "buy" THEN "Instrument.get_buy_queue"
                                        ELSE "Instrument.get_sell_queue",
                                 !.src = k, !.rung = r.val]]
          /\ ret' = [ret EXCEPT ![t] =
                 [kind |-> IF r.exc = "" THEN "rung" ELSE "raise", ref |-> 0, exc |-> r.exc]]
    /\ UNCHANGED <<getVars, heapVars>>
    /\ UNCHANGED obsVars

\* a caller clones the StaticInstrumentInfo at heap index k
CloneStatic(t, k) ==
    /\ CanCall(t)
    /\ k \in 1..Len(statics)
    /\ statics' = Append(statics, StaticClone(statics[k]))
    /\ pc' = [pc EXCEPT ![t] = "done"]
    /\ frame' = [frame EXCEPT ![t] =
           [NoFrame EXCEPT !.fn = "StaticInstrumentInfo.clone", !.src = k]]
    /\ ret' = [ret EXCEPT ![t] = [kind |-> "static", ref |-> Len(statics) + 1, exc |-> ""]]
    /\ UNCHANGED <<getVars, cache, snaps, alive>>
    /\ UNCHANGED obsVars

\* a caller clones the Instrument at heap index k
CloneInstrument(t, k) ==
    /\ CanCall(t)
    /\ k \in 1..Len(snaps)
    /\ pc' = [pc EXCEPT ![t] = "done"]
    /\ frame' = [frame EXCEPT ![t] = [NoFrame EXCEPT !.fn = "Instrument.clone", !.src = k]]
    /\ LET r == InstrumentClone(snaps[k], Len(snaps) + 1, Len(statics) + 1)
       IN IF r.exc # ""
          THEN /\ ret' = [ret EXCEPT ![t] = [kind |-> "raise", ref |-> 0, exc |-> r.exc]]
               /\ UNCHANGED <<statics, snaps>>
          ELSE /\ statics' = Append(statics, StaticClone(statics[snaps[k].static_data]))
               /\ snaps' = Append(snaps, r.inst)
               /\ ret' = [ret EXCEPT ![t] =
                      [kind |-> "instrument", ref |-> Len(snaps) + 1, exc |-> ""]]
    /\ UNCHANGED <<getVars, cache, alive>>
    /\ UNCHANGED obsVars

\* One caller working through both instruments
Next ==
    \/ \E ins \in InsCodes : CallStatic("t1", ins)
    \/ \E ins \in InsCodes, n \in 0..MaxRetry : CallRetry("t1", ins, n)
    \/ \E ins \in InsCodes : CallLive("t1", ins)
    \/ \E a \in BodiesA(frame["t1"].ins) : StaticA("t1", a)
    \/ StaticAWake("t1")
    \/ \E b \in BodiesB, d \in Today : StaticB("t1", b, d)
    \/ RetryWake("t1")
    \/ LiveRead("t1")
    \/ \E p \in LiveBodies : LiveRespond("t1", p)

Spec == ApiInit /\ [][Next]_vars

\* The threads of a pool working on one instrument, as main.py's workers do
ConcBodiesA == { NoA, GoodA("i1", 1, 900, 1100) }
ConcBodiesB == { GoodCells, SubSeq(GoodCells, 1, 3) }

NextConc ==
    \/ \E t \in Threads : CallStatic(t, "i1")
    \/ \E t \in Threads : CallLive(t, "i1")
    \/ \E t \in Threads, a \in ConcBodiesA : StaticA(t, a)
    \/ \E t \in Threads : StaticAWake(t)
    \/ \E t \in Threads, b \in ConcBodiesB, d \in Today : StaticB(t, b, d)
    \/ \E t \in Threads : LiveRead(t)
    \/ \E t \in Threads, p \in LiveBodies : LiveRespond(t, p)

SpecConc == ApiInit /\ [][NextConc]_vars

\* One get_live_data call on a fresh TseApi, given every payload of
\* LivePayloads, and one clone of each object it made
NextLive ==
    \/ Len(snaps) = 0 /\ pc["t1"] = "idle" /\ CallLive("t1", "i1")
    \/ \E a \in BodiesA("i1") : StaticA("t1", a)
    \/ StaticAWake("t1")
    \/ \E b \in BodiesB, d \in Today : StaticB("t1", b, d)
    \/ LiveRead("t1")
    \/ \E p \in LivePayloads : LiveRespond("t1", p)
    \/ Len(statics) = 1 /\ CloneStatic("t1", 1)
    \/ Len(snaps) = 1 /\ CloneInstrument("t1", 1)
    \/ \E side \in {"buy", "sell"} : Len(snaps) = 1 /\ CallQueue("t1", 1, side)

SpecLive == ApiInit /\ [][NextLive]_vars

-----------------------------------------------------------------------------
(* Observer *)

\* the live text the producer's Instruments are parsed from
ObserverPayload == LiveText(11, << Tok("A") >>, 99, FALSE, 1, TRUE, "full", 8, "plain")

\* the low/high thresholds of the records the producer makes
ObserverThresholds == { <<900, 1100>>, <<900, 1200>>, <<950, 1200>> }

\* the instruments and days of the records the producer makes
ObserverKeys ==
    { <<"i1", "2026/05/04">>, <<"i1", "2026/06/04">>, <<"i2", "2026/05/04">> }

\* what a producer hands to Observer.put: a new Instrument whose static_data
\* is a new record, or a new Instrument holding the record at heap index k
\* (as the snapshots of one TseApi hold the cached record)
PutInputs ==
    [kind : {"own"}, key : ObserverKeys, thr : ObserverThresholds, k : {0}]
    \cup [kind : {"shared"}, key : {<<"", "">>}, thr : {<<0, 0>>}, k : 1..Len(statics)]

\* a comparison that looks at the low threshold only
SameThresholds_LowOnly(a, b) == a.low_threshold = b.low_threshold

\* a comparison that looks at the high threshold only
SameThresholds_HighOnly(a, b) == a.high_threshold = b.high_threshold

\* the key of line 508
Key(static_data) == <<static_data.instrument_id, static_data.date>>

\* the comparison of lines 511-515
SameThresholds(a, b) ==
    a.low_threshold = b.low_threshold /\ a.high_threshold = b.high_threshold

\* Observer.put(data): queue.Queue() has no size limit, put does not block
ObserverPut(d) ==
    /\ alive
    /\ Len(snaps) < MaxPuts
    /\ LET ref == IF d.kind = "own" THEN Len(statics) + 1 ELSE d.k
           made == StaticInstrumentInfo(d.key[1],
                                        GoodA(d.key[1], 1, d.thr[1], d.thr[2]), d.key[2])
           rec == IF d.kind = "own" THEN made ELSE statics[d.k]
       IN /\ statics' = IF d.kind = "own" THEN Append(statics, made) ELSE statics
          /\ snaps' = Append(snaps,
                 LiveParse(ObserverPayload, ref, rec, Len(snaps) + 1).inst)
    /\ o_queue' = Append(o_queue, Len(snaps) + 1)
    /\ UNCHANGED <<o_static, o_popped, o_pc>>
    /\ UNCHANGED <<getVars, cache, alive, threadVars>>

\* Observer.put(data) with data the Instrument at heap index x, which a
\* get_live_data call returned and which has not been put before
ObserverPutSnap(x) ==
    /\ alive
    /\ x \in 1..Len(snaps)
    /\ \A i \in 1..Len(o_queue) : o_queue[i] # x
    /\ \A i \in 1..Len(o_popped) : o_popped[i] # x
    /\ o_queue' = Append(o_queue, x)
    /\ UNCHANGED <<o_static, o_popped, o_pc>>
    /\ UNCHANGED <<getVars, heapVars, threadVars>>

\* the consumer enters Observer.get
ObserverGetCall ==
    /\ alive
    /\ o_pc = "idle"
    /\ o_pc' = "polling"
    /\ UNCHANGED <<o_queue, o_static, o_popped>>
    /\ UNCHANGED <<getVars, heapVars, threadVars>>

\* a get that gives up on Empty and returns nothing
ObserverEmpty_Returns ==
    /\ alive
    /\ o_pc = "polling"
    /\ o_queue = << >>
    /\ o_pc' = "idle"
    /\ UNCHANGED <<o_queue, o_static, o_popped>>
    /\ UNCHANGED <<getVars, heapVars, threadVars>>

\* queue.get(block=True, timeout=1) raises Empty: print, then time.sleep(1)
ObserverEmpty ==
    /\ alive
    /\ o_pc = "polling"
    /\ o_queue = << >>
    /\ o_pc' = "sleeping"
    /\ UNCHANGED <<o_queue, o_static, o_popped>>
    /\ UNCHANGED <<getVars, heapVars, threadVars>>

\* time.sleep(1) returns and the loop polls again
ObserverWake ==
    /\ alive
    /\ o_pc = "sleeping"
    /\ o_pc' = "polling"
    /\ UNCHANGED <<o_queue, o_static, o_popped>>
    /\ UNCHANGED <<getVars, heapVars, threadVars>>

\* queue.get gives an Instrument: lines 508-519
ObserverGet ==
    /\ alive
    /\ o_pc = "polling"
    /\ o_queue # << >>
    /\ LET instrument == Head(o_queue)
           own == snaps[instrument].static_data
           key == Key(statics[own])
           first == IF key \in DOMAIN o_static THEN o_static[key] ELSE own
       IN IF SameThresholds(statics[first], statics[own])
          THEN /\ snaps' = [snaps EXCEPT ![instrument].static_data = first]
               /\ o_static' = [k \in DOMAIN o_static \cup {key} |->
                                 IF k = key THEN first ELSE o_static[k]]
          ELSE /\ o_static' = [o_static EXCEPT ![key] = own]
               /\ UNCHANGED snaps
    /\ o_popped' = Append(o_popped, Head(o_queue))
    /\ o_queue' = Tail(o_queue)
    /\ o_pc' = "idle"
    /\ UNCHANGED <<getVars, cache, statics, alive, threadVars>>

NextObserver ==
    \/ \E d \in PutInputs : ObserverPut(d)
    \/ ObserverGetCall
    \/ ObserverEmpty
    \/ ObserverWake
    \/ ObserverGet

SpecObserver == ApiInit /\ [][NextObserver]_vars

\* The hand-off alone: Instruments of one instrument and day
HandOffInputs ==
    { d \in PutInputs :
        d.kind = "shared" \/ (d.key = <<"i1", "2026/05/04">> /\ d.thr[1] = 900) }

NextHandOff ==
    \/ \E d \in HandOffInputs : ObserverPut(d)
    \/ ObserverGetCall
    \/ ObserverEmpty
    \/ ObserverWake
    \/ ObserverGet

\* time.sleep(1) returns, and queue.get returns when the queue holds an item
SpecHandOff ==
    ApiInit /\ [][NextHandOff]_vars /\ WF_vars(ObserverWake) /\ WF_vars(ObserverGet)

\* One caller fetching instrument i1 and handing its snapshots to the
\* Observer, one consumer taking them
PipeBodiesA == { GoodA("i1", 1, 900, 1100), GoodA("i1", 1, 950, 1100) }
PipeBodiesB == { GoodCells }

NextPipe ==
    \/ CallStatic("t1", "i1")
    \/ CallLive("t1", "i1")
    \/ \E a \in PipeBodiesA : StaticA("t1", a)
    \/ \E b \in PipeBodiesB, d \in Today : StaticB("t1", b, d)
    \/ LiveRead("t1")
    \/ \E p \in LiveBodies : LiveRespond("t1", p)
    \/ \E x \in 1..Len(snaps) : ObserverPutSnap(x)
    \/ ObserverGetCall
    \/ ObserverGet

SpecPipe == ApiInit /\ [][NextPipe]_vars

-----------------------------------------------------------------------------
(* Claims *)

CleanResponse(o) ==
    o.kind = "response" /\ o.status = 200 /\ ~HasMarker(o.body)

BadResponse(o) ==
    o.kind = "response" /\ (o.status # 200 \/ HasMarker(o.body))

TransientFailure(o) ==
    o.kind \in {"timeout", "connection"} \/ BadResponse(o)

\* C1: get hands a body to its caller only if the response had status 200 and
\* its body holds none of the three markers; a response with another status or
\* with a marker is never the returned value and leaves get retrying (asleep
\* before the next request, or requesting again).
C1_OnlyCleanBodyReturned ==
    /\ g_result.set =>
          /\ g_pc = "returned"
          /\ g_http.kind = "response"
          /\ g_http.status = 200
          /\ g_result.body = g_http.body
          /\ ~Contains(g_result.body, "Too Many Requests")
          /\ ~Contains(g_result.body, "The service is unavailable")
          /\ ~Contains(g_result.body, "Error")
    /\ g_pc = "returned" => g_result.set
    /\ (/\ g_http.kind = "response"
        /\ \/ g_http.status # 200
           \/ Contains(g_http.body, "Too Many Requests")
           \/ Contains(g_http.body, "The service is unavailable")
           \/ Contains(g_http.body, "Error"))
       => g_pc \in {"sleeping", "requesting"} /\ ~g_result.set

\* C1 witness: a status-200 body carrying "Error" arrived after an earlier
\* failure, and get is asleep before its next request.
C1_Witness ==
    /\ g_pc = "sleeping"
    /\ g_tries >= 1
    /\ g_http.kind = "response"
    /\ g_http.status = 200
    /\ Contains(g_http.body, "Error")
    /\ g_slept = "sleep_tse_errors"

\* C2: on a timeout, a connection failure, a non-200 response or a
\* marker-bearing body get never raises and always goes to sleep; it returns
\* exactly on a clean status-200 body; after every sleep it requests again,
\* however many failures came before (no retry limit).
C2_AbsorbsTransientFailures ==
    /\ [][ (g_pc = "requesting" /\ g_pc' # "requesting") =>
             /\ TransientFailure(g_http') => g_pc' = "sleeping"
             /\ CleanResponse(g_http') <=> g_pc' = "returned"
             /\ g_pc' = "returned" => g_result' = [set |-> TRUE, body |-> g_http'.body]
             /\ g_pc' = "raised" => g_http'.kind = "other" ]_vars
    /\ [][ g_pc = "sleeping" => g_pc' \in {"sleeping", "requesting"} ]_vars
    /\ [](g_pc = "sleeping" => <>(g_pc = "requesting"))

\* C2 witness: get returned after as many failed iterations as the counter holds.
C2_Witness ==
    /\ g_pc = "returned"
    /\ g_tries = MaxTries
    /\ g_result.set

\* the live call of thread t has ended (returned, or killed the process)
LiveEnded(t) ==
    frame[t].fn = "get_live_data" /\ pc[t] \in {"done", "killed"}

\* the live call of thread t returned an Instrument
LiveReturned(t) ==
    frame[t].fn = "get_live_data" /\ pc[t] = "done" /\ ret[t].kind = "instrument"

\* the first segment of payload p has no field[1]: no "," before the first ";"
NoStateField(p) ==
    \A i \in 1..Len(p) : p[i].t = "," => \E j \in 1..(i - 1) : p[j].t = ";"

\* C3: when the live payload's first segment has no field[1], get_live_data
\* returns None with no exception, the process stays alive, and the cache,
\* the static records (yesterday_final included) and the snapshots are as
\* they were before the payload was handled.
C3_NoStateFieldGivesNone ==
    [][ \A t \in Threads :
          (/\ pc[t] = "live_get" /\ pc'[t] # "live_get"
           /\ NoStateField(frame'[t].response.body))
          => /\ pc'[t] = "done"
             /\ ret'[t] = [kind |-> "None", ref |-> 0, exc |-> ""]
             /\ alive'
             /\ cache' = cache /\ statics' = statics /\ snaps' = snaps ]_vars

\* C3 witness: a payload of several segments whose first has one field was
\* answered with None, and the cached record still holds the sentinel.
C3_Witness ==
    /\ pc["t1"] = "done" /\ frame["t1"].fn = "get_live_data"
    /\ frame["t1"].response.set
    /\ NoStateField(frame["t1"].response.body)
    /\ Len(frame["t1"].response.body) > 3
    /\ ret["t1"].kind = "None"
    /\ alive
    /\ statics[cache["i1"]].yesterday_final = -1

\* C4: an exception that leaves the body of get_live_data (from the parse of
\* the payload or from the implicit static fetch) always ends with the
\* process killed and never with a value handed to the caller; a None result
\* carries no exception and leaves the process alive.
C4_ExceptionsKill ==
    /\ \A t \in Threads :
         frame[t].fn = "get_live_data" =>
           /\ ret[t].exc # "" =>
                ret[t].kind = "killed" /\ pc[t] = "killed" /\ ~alive
           /\ ret[t].kind = "None" =>
                ret[t].exc = "" /\ pc[t] = "done" /\ alive
           /\ pc[t] = "done" => ret[t].kind \in {"instrument", "None"}
    /\ ~alive => \E t \in Threads : ret[t].kind = "killed" /\ ret[t].exc # ""

\* C4 witness: the payload's parse raised ValueError and the process is dead.
C4_Witness ==
    /\ ~alive
    /\ pc["t1"] = "killed"
    /\ frame["t1"].response.set
    /\ ret["t1"] = [kind |-> "killed", ref |-> 0, exc |-> "ValueError"]

RungEq(a, b) == a.price = b.price /\ a.vol = b.vol /\ a.count = b.count

RealLegalEq(a, b) ==
    /\ a.none = b.none
    /\ a.real_vol = b.real_vol /\ a.real_count = b.real_count
    /\ a.legal_vol = b.legal_vol /\ a.legal_count = b.legal_count

\* the Instruments at heap indexes x and y hold equal values
InstrumentEq(x, y) ==
    LET a == snaps[x]
        b == snaps[y]
    IN /\ a.state = b.state /\ a.last = b.last /\ a.final = b.final
       /\ a.trades_value = b.trades_value /\ a.trades_count = b.trades_count
       /\ a.trades_vol = b.trades_vol /\ a.market_value = b.market_value
       /\ a.lowest_price = b.lowest_price /\ a.highest_price = b.highest_price
       /\ a.last_trade_date = b.last_trade_date
       /\ Len(a.buy_best_limit.items) = Len(b.buy_best_limit.items)
       /\ Len(a.sell_best_limit.items) = Len(b.sell_best_limit.items)
       /\ \A j \in 1..Len(a.buy_best_limit.items) :
            RungEq(a.buy_best_limit.items[j], b.buy_best_limit.items[j])
       /\ \A j \in 1..Len(a.sell_best_limit.items) :
            RungEq(a.sell_best_limit.items[j], b.sell_best_limit.items[j])
       /\ RealLegalEq(a.buy_reallegal, b.buy_reallegal)
       /\ RealLegalEq(a.sell_reallegal, b.sell_reallegal)
       /\ statics[a.static_data] = statics[b.static_data]

\* the mutable objects an Instrument reaches, as (kind, identity)
Parts(x) ==
    LET a == snaps[x]
    IN { <<"static", a.static_data, 0>>,
         <<"buy list", a.buy_best_limit.own, 0>>,
         <<"sell list", a.sell_best_limit.own, 0>> }
       \cup { <<"buy rung", a.buy_best_limit.items[j].own, j>> :
                j \in 1..Len(a.buy_best_limit.items) }
       \cup { <<"sell rung", a.sell_best_limit.items[j].own, j>> :
                j \in 1..Len(a.sell_best_limit.items) }
       \cup (IF a.buy_reallegal.none THEN {}
             ELSE { <<"buy reallegal", a.buy_reallegal.own, 0>> })
       \cup (IF a.sell_reallegal.none THEN {}
             ELSE { <<"sell reallegal", a.sell_reallegal.own, 0>> })

\* C8 (as claimed): every clone of a StaticInstrumentInfo or of an Instrument
\* that get_live_data made succeeds, equals its original, and shares no
\* mutable object with it.
C8_CloneSucceedsEqualIndependent ==
    \A t \in Threads :
      /\ (pc[t] = "done" /\ frame[t].fn = "StaticInstrumentInfo.clone") =>
           /\ ret[t].kind = "static"
           /\ ret[t].ref # frame[t].src
           /\ statics[ret[t].ref] = statics[frame[t].src]
      /\ (pc[t] = "done" /\ frame[t].fn = "Instrument.clone") =>
           /\ ret[t].kind = "instrument"
           /\ ret[t].ref # frame[t].src
           /\ InstrumentEq(frame[t].src, ret[t].ref)
           /\ Parts(frame[t].src) \cap Parts(ret[t].ref) = {}

\* the best-limit segment (segment 2) of payload p
BestLimitSegment(p) == Split(p, ";")[3]

\* seg is k groups in the upstream format: six numbers joined by "@", each
\* group followed by ","
IsGroups(seg, k) ==
    /\ Len(seg) = 12 * k
    /\ \A i \in 1..Len(seg) :
         IF i % 12 = 0 THEN seg[i].t = ","
         ELSE IF i % 2 = 0 THEN seg[i].t = "@"
         ELSE seg[i].t = "num"

\* field f (0..5) of group g (1..k) of such a segment
GroupField(seg, g, f) == seg[12 * (g - 1) + 2 * f + 1].v

\* seg is k >= 1 groups with "," between them and none after the last
IsSeparatedGroups(seg, k) ==
    /\ k >= 1
    /\ Len(seg) = 12 * k - 1
    /\ \A i \in 1..Len(seg) :
         IF i % 12 = 0 THEN seg[i].t = ","
         ELSE IF i % 2 = 0 THEN seg[i].t = "@"
         ELSE seg[i].t = "num"

\* the snapshot at heap index x has 5 buy and 5 sell entries, the first k of
\* them built from the groups of seg with sell count last(i) for entry i,
\* the rest (0, 0, 0)
PaddedFrom(x, seg, k, last(_)) ==
    LET buy == snaps[x].buy_best_limit.items
        sell == snaps[x].sell_best_limit.items
    IN /\ Len(buy) = 5 /\ Len(sell) = 5
       /\ \A i \in 1..5 :
            IF i <= k
            THEN /\ buy[i].count = GroupField(seg, i, 0)
                 /\ buy[i].vol = GroupField(seg, i, 1)
                 /\ buy[i].price = GroupField(seg, i, 2)
                 /\ sell[i].price = GroupField(seg, i, 3)
                 /\ sell[i].vol = GroupField(seg, i, 4)
                 /\ sell[i].count = last(i)
            ELSE /\ buy[i].price = 0 /\ buy[i].vol = 0 /\ buy[i].count = 0
                 /\ sell[i].price = 0 /\ sell[i].vol = 0 /\ sell[i].count = 0

\* C9 (as claimed): for any best-limit segment of k < 5 comma-separated
\* groups, whether or not a "," follows the last group, the snapshot's buy
\* and sell lists have exactly 5 entries, entry i <= k built from group i and
\* the entries after k equal to (0, 0, 0).
C9_AnySegmentOfFewerThanFiveGroups ==
    \A t \in Threads : LiveReturned(t) =>
      \A k \in 0..4 :
        LET seg == BestLimitSegment(frame[t].response.body)
        IN (IsGroups(seg, k) \/ IsSeparatedGroups(seg, k)) =>
             PaddedFrom(ret[t].ref, seg, k, LAMBDA i : GroupField(seg, i, 5))

\* C9 (amended): when the best-limit segment holds k < 5 groups, each
\* followed by "," (k = 0 is the empty segment), the snapshot's buy and sell
\* lists have exactly 5 entries each; entry i <= k comes from group i (buy:
\* count, volume, price = fields 0, 1, 2; sell: price, volume, count = fields
\* 3, 4, 5) and the entries after k are (0, 0, 0).  When no "," follows the
\* last group, a snapshot is returned only if that group's sell count has two
\* digits or more, and the entry's sell count is that number without its
\* last digit.
C9_FewerThanFiveGroupsPadded ==
    \A t \in Threads : LiveReturned(t) =>
      \A k \in 0..4 :
        LET seg == BestLimitSegment(frame[t].response.body)
        IN /\ IsGroups(seg, k) =>
              PaddedFrom(ret[t].ref, seg, k, LAMBDA i : GroupField(seg, i, 5))
           /\ IsSeparatedGroups(seg, k) =>
              /\ GroupField(seg, k, 5) >= 10
              /\ PaddedFrom(ret[t].ref, seg, k,
                            LAMBDA i : IF i = k THEN GroupField(seg, i, 5) \div 10
                                       ELSE GroupField(seg, i, 5))

\* C9 witness: a snapshot made from a segment of three groups; its third buy
\* rung is the third group's and its fourth is the zero rung.
C9_Witness ==
    /\ LiveReturned("t1")
    /\ IsGroups(BestLimitSegment(frame["t1"].response.body), 3)
    /\ snaps[ret["t1"].ref].buy_best_limit.items[3].price = 997
    /\ snaps[ret["t1"].ref].sell_best_limit.items[3].count = 10
    /\ snaps[ret["t1"].ref].buy_best_limit.items[4].price = 0

\* the integer in the second "@"-part of segment 7 of payload p, 0 without one
SecondPartOfSegment7(p) ==
    LET parts == Split(Split(p, ";")[8], "@")
    IN IF Len(parts) > 1 THEN ParseInt(parts[2]).val ELSE 0

\* C10 (as claimed): the market value of a snapshot is an integer: final
\* price times number_of_shares when flow is not 3, else the integer in the
\* second "@"-part of segment 7, or 0 without one.
C10_MarketValueIsInteger ==
    \A t \in Threads : LiveReturned(t) =>
      LET inst == snaps[ret[t].ref]
          static_data == statics[inst.static_data]
      IN /\ inst.market_value.kind = "int"
         /\ static_data.flow # 3 =>
              inst.market_value.int = inst.final * static_data.number_of_shares
         /\ static_data.flow = 3 =>
              inst.market_value.int = SecondPartOfSegment7(frame[t].response.body)

\* the static_data of the i-th Instrument that Observer.get returned
PoppedStatic(i) == snaps[o_popped[i]].static_data

\* the i-th and the j-th popped Instrument have the same (instrument_id, date)
\* and the same low and high thresholds
Alike(i, j) ==
    LET a == statics[PoppedStatic(i)]
        b == statics[PoppedStatic(j)]
    IN /\ a.instrument_id = b.instrument_id /\ a.date = b.date
       /\ a.low_threshold = b.low_threshold
       /\ a.high_threshold = b.high_threshold

SameKey(i, j) ==
    /\ statics[PoppedStatic(i)].instrument_id = statics[PoppedStatic(j)].instrument_id
    /\ statics[PoppedStatic(i)].date = statics[PoppedStatic(j)].date

\* C5 (as claimed): any two popped snapshots with the same (instrument_id,
\* date) and identical low/high thresholds hold the very same static_data
\* instance, whatever was put and popped around them.
C5_SameKeySameThresholdsShare ==
    \A i, j \in 1..Len(o_popped) :
      Alike(i, j) => PoppedStatic(i) = PoppedStatic(j)

\* what Observer.get does to the Instrument at the head of the queue
InternStep ==
    LET x == Head(o_queue)
        own == snaps[x].static_data
        key == <<statics[own].instrument_id, statics[own].date>>
        held == key \in DOMAIN o_static
        same == /\ held
                /\ statics[o_static[key]].low_threshold = statics[own].low_threshold
                /\ statics[o_static[key]].high_threshold = statics[own].high_threshold
    IN /\ o_popped' = Append(o_popped, x)
       /\ statics' = statics
       /\ \A y \in 1..Len(snaps) : y # x => snaps'[y] = snaps[y]
       /\ DOMAIN o_static' = DOMAIN o_static \cup {key}
       /\ \A k \in DOMAIN o_static : k # key => o_static'[k] = o_static[k]
       /\ IF same
          THEN snaps'[x].static_data = o_static[key] /\ o_static'[key] = o_static[key]
          ELSE snaps'[x].static_data = own /\ o_static'[key] = own

\* C5 (amended): Observer.get compares a popped snapshot with the record
\* interned for its (instrument_id, date) at that moment: with equal low and
\* high thresholds the snapshot takes the interned instance; with no record
\* or different thresholds it keeps its own static_data, which becomes the
\* interned instance.  So two popped snapshots of one key with identical
\* thresholds hold the same instance when every snapshot of that key popped
\* between them has those thresholds too.
C5_InternsAgainstCurrentRecord ==
    /\ [][o_popped' # o_popped => InternStep]_vars
    /\ [](\A i, j \in 1..Len(o_popped) :
            (/\ i < j
             /\ Alike(i, j)
             /\ \A m \in i..j : SameKey(i, m) => Alike(i, m))
            => PoppedStatic(i) = PoppedStatic(j))

\* C5 witness: three snapshots of one key, each put with a record of its
\* own, were popped; the first two have the same thresholds and share the
\* first record, the third has other thresholds, kept its own record, and
\* that record is now the interned one.
C5_Witness ==
    /\ Len(o_popped) = 3 /\ Len(statics) = 3
    /\ Alike(1, 2) /\ SameKey(1, 3) /\ ~Alike(1, 3)
    /\ PoppedStatic(1) = 1 /\ PoppedStatic(2) = 1
    /\ PoppedStatic(3) = 3
    /\ o_static[<<"IRO1", "2026/05/04">>] = 3

\* thread t enters function fn in this step
Enters(t, fn) ==
    /\ pc[t] \in {"idle", "done"}
    /\ frame'[t].fn = fn
    /\ pc'[t] \in {"static_A", "live_get"}

\* C6 (as claimed): a call of get_static_data or get_live_data goes to the
\* static endpoints only when the instrument has no cached record.
C6_StaticFetchedOncePerInstrument ==
    [][ \A t \in Threads :
          ((Enters(t, "get_static_data") \/ Enters(t, "get_live_data"))
             /\ pc'[t] = "static_A")
          => cache[frame'[t].ins] = 0 ]_vars

\* C6 (amended): get_live_data uses the cached record of its instrument and
\* goes to the static endpoints only when there is none; get_static_data
\* never consults the cache: every call requests the static endpoints, and a
\* call that succeeds puts a new record in the cache in place of the old one.
C6_LiveReusesStaticRefetches ==
    [][ \A t \in Threads :
          /\ Enters(t, "get_live_data") =>
               IF cache[frame'[t].ins] # 0
               THEN /\ pc'[t] = "live_get"
                    /\ frame'[t].sd = cache[frame'[t].ins]
                    /\ statics' = statics /\ cache' = cache
               ELSE pc'[t] = "static_A"
          /\ Enters(t, "get_static_data") => pc'[t] = "static_A"
          /\ (pc[t] = "static_B" /\ pc'[t] = "done" /\ ret'[t].kind = "static") =>
               /\ Len(statics') = Len(statics) + 1
               /\ ret'[t].ref = Len(statics')
               /\ cache' = [cache EXCEPT ![frame[t].ins] = Len(statics')]
               /\ statics'[Len(statics')].ins_code = frame[t].ins
          /\ (pc[t] = "live_read" /\ pc'[t] = "live_get") =>
               frame'[t].sd = cache[frame[t].ins] ]_vars

\* C6 witness: get_static_data ran twice for i1 and made two records; the
\* live call that followed made no request of its own and holds the second.
C6_Witness ==
    /\ Len(statics) = 2
    /\ statics[1].ins_code = "i1" /\ statics[2].ins_code = "i1"
    /\ cache["i1"] = 2
    /\ pc["t1"] = "live_get"
    /\ frame["t1"].fn = "get_live_data" /\ frame["t1"].ins = "i1"
    /\ frame["t1"].got = ""
    /\ frame["t1"].sd = 2

\* what the last attempt of thread t raised
LastError(t) ==
    IF frame[t].got = "A" THEN StaticParseA(frame[t].a) ELSE StaticParseB(frame[t].b)

\* the number of get_static_data calls thread t's wrapper has made
Attempts(t) == IF frame[t].got = "" THEN 0 ELSE frame[t].i + 1

\* C7 (as claimed): get_static_data_retry(ins_code, n) makes at most n
\* attempts and ends either with the record of the first attempt that
\* succeeded or, after n failed attempts, with the error of the last one; it
\* never returns without a StaticInstrumentInfo.
C7_RetryReturnsRecordOrRaisesLast ==
    \A t \in Threads :
      frame[t].fn = "get_static_data_retry" =>
        /\ Attempts(t) <= frame[t].n
        /\ pc[t] = "done" =>
             \/ /\ ret[t].kind = "static"
                /\ statics[ret[t].ref].ins_code = frame[t].ins
                /\ LastError(t) = ""
             \/ /\ ret[t].kind = "raise"
                /\ Attempts(t) = frame[t].n
                /\ ret[t].exc = LastError(t)

\* thread t's call of get_buy_queue or get_sell_queue has returned
QueueReturned(t, fn) == pc[t] = "done" /\ frame[t].fn = fn

\* rung r has the values of rung top and is another object
CopyOf(r, top) ==
    /\ r.price = top.price /\ r.vol = top.vol /\ r.count = top.count
    /\ r.own # top.own

ZeroRung(r) == r.price = 0 /\ r.vol = 0 /\ r.count = 0

\* C11: get_buy_queue returns a copy of the top buy rung exactly when that
\* rung's price equals the static high_threshold and a (0, 0, 0) rung
\* otherwise; get_sell_queue does the same with the top sell rung and
\* low_threshold; the call changes no Instrument and no static record.
C11_QueueIsTopRungAtThreshold ==
    /\ [](\A t \in Threads :
            /\ QueueReturned(t, "Instrument.get_buy_queue") =>
                 LET inst == snaps[frame[t].src]
                     top == inst.buy_best_limit.items[1]
                 IN /\ ret[t].kind = "rung"
                    /\ IF top.price = statics[inst.static_data].high_threshold
                       THEN CopyOf(frame[t].rung, top)
                       ELSE ZeroRung(frame[t].rung)
            /\ QueueReturned(t, "Instrument.get_sell_queue") =>
                 LET inst == snaps[frame[t].src]
                     top == inst.sell_best_limit.items[1]
                 IN /\ ret[t].kind = "rung"
                    /\ IF top.price = statics[inst.static_data].low_threshold
                       THEN CopyOf(frame[t].rung, top)
                       ELSE ZeroRung(frame[t].rung))
    /\ [][ \A t \in Threads :
             frame'[t].fn \in {"Instrument.get_buy_queue", "Instrument.get_sell_queue"}
             => snaps' = snaps /\ statics' = statics ]_vars

\* C11 witness: the top buy rung (999, 10, 1) stands at the high threshold
\* 999 and get_buy_queue returned it.
C11_Witness ==
    /\ QueueReturned("t1", "Instrument.get_buy_queue")
    /\ statics[snaps[frame["t1"].src].static_data].high_threshold = 999
    /\ snaps[frame["t1"].src].buy_best_limit.items[1].price = 999
    /\ frame["t1"].rung.price = 999
    /\ frame["t1"].rung.vol = 10
    /\ frame["t1"].rung.count = 1

\* C12: Observer.get returns only by taking the Instrument at the head of
\* the queue, so never without one and never while the queue is empty; the
\* Instruments returned so far followed by those still queued are all the
\* Instruments put, each once, in the order of the puts; and a get in
\* progress returns once the queue holds an Instrument.
C12_HandOff ==
    /\ [][ (o_pc # "idle" /\ o_pc' = "idle") =>
             /\ o_queue # << >>
             /\ o_popped' = Append(o_popped, Head(o_queue))
             /\ o_queue' = Tail(o_queue) ]_vars
    /\ [][ o_popped' # o_popped => (o_pc # "idle" /\ o_pc' = "idle") ]_vars
    /\ [](o_popped \o o_queue = [i \in 1..Len(snaps) |-> i])
    /\ []((o_pc # "idle" /\ o_queue # << >>) => <>(o_pc = "idle"))

\* C12 witness: the consumer found the queue empty after two Instruments and
\* sleeps while a third has been put.
C12_Witness ==
    /\ o_pc = "sleeping"
    /\ o_popped = <<1, 2>>
    /\ o_queue = <<3>>

\* C13 (as claimed): whenever get_live_data(i) returns a snapshot, the
\* snapshot's static_data is the record the cache holds for i at that moment
\* and that record has the parsed yesterday-final in place of the sentinel,
\* whatever other calls on the same TseApi run at the same time.
C13_BackFillGoesToCachedRecord ==
    [][ \A t \in Threads :
          (pc[t] = "live_get" /\ pc'[t] = "done" /\ ret'[t].kind = "instrument")
          => /\ snaps'[ret'[t].ref].static_data = cache'[frame[t].ins]
             /\ statics'[cache'[frame[t].ins]].yesterday_final # -1 ]_vars

\* what can be read through the Instrument at heap index x: its fields, the
\* static_data it refers to and the fields of that record
Observable(x) == <<snaps[x], statics[snaps[x].static_data]>>

\* C14 (as claimed): once an Instrument exists, no later step changes
\* anything that can be read through it.
C14_SnapshotNeverChanges ==
    [][ \A x \in 1..Len(snaps) : Observable(x)' = Observable(x) ]_vars

\* this step is Observer.get returning the Instrument x
PopOf(x) == o_queue # << >> /\ Head(o_queue) = x /\ o_popped' = Append(o_popped, x)

\* this step is a get_live_data call returning a snapshot made with record k
BackFillOf(k) ==
    \E t \in Threads :
      /\ pc[t] = "live_get" /\ pc'[t] = "done" /\ ret'[t].kind = "instrument"
      /\ frame[t].sd = k

\* C14 (amended): later steps leave an Instrument's own fields as they are.
\* The record it refers to is replaced only by the Observer.get that returns
\* it, by the record interned for the same (instrument_id, date) with the
\* same thresholds.  The fields of the record it refers to change only in
\* yesterday_final, and only when a get_live_data call that holds the same
\* record returns a snapshot.
C14_OnlyStaticDataChanges ==
    [][ \A x \in 1..Len(snaps) :
          LET k == snaps[x].static_data
              k2 == snaps'[x].static_data
          IN /\ [snaps'[x] EXCEPT !.static_data = 0] = [snaps[x] EXCEPT !.static_data = 0]
             /\ k2 # k =>
                  /\ PopOf(x)
                  /\ <<statics[k].instrument_id, statics[k].date>> \in DOMAIN o_static
                  /\ k2 = o_static[<<statics[k].instrument_id, statics[k].date>>]
                  /\ statics[k2].low_threshold = statics[k].low_threshold
                  /\ statics[k2].high_threshold = statics[k].high_threshold
             /\ statics'[k] # statics[k] =>
                  /\ BackFillOf(k)
                  /\ [statics'[k] EXCEPT !.yesterday_final = 0]
                       = [statics[k] EXCEPT !.yesterday_final = 0] ]_vars

\* C14 witness: the second snapshot was made with the second record (which
\* its call back-filled); Observer.get has returned it holding the first
\* record, whose yesterday_final the calls wrote as 99 and then 98.
C14_Witness ==
    /\ o_popped = <<1, 2>>
    /\ Len(statics) = 2
    /\ statics[2].yesterday_final # -1
    /\ snaps[2].static_data = 1
    /\ snaps[1].static_data = 1

\* C15 (as claimed): every Instrument get_live_data returns has exactly 5
\* buy rungs and exactly 5 sell rungs, however many groups the best-limit
\* segment holds.
C15_AlwaysFiveRungs ==
    \A t \in Threads : LiveReturned(t) =>
      /\ Len(snaps[ret[t].ref].buy_best_limit.items) = 5
      /\ Len(snaps[ret[t].ref].sell_best_limit.items) = 5

\* the eight codes of a listed instrument
KnownCodes == {"A", "AG", "AS", "AR", "I", "IG", "IS", "IR"}

\* the fields of the first segment of payload p
FirstSegment(p) == Split(Split(p, ";")[1], ",")

\* payload p has a state-code field that, blanks aside, is empty or is none
\* of the eight codes
UnknownStateCode(p) ==
    /\ Len(FirstSegment(p)) >= 2
    /\ LET code == Strip(FirstSegment(p)[2])
       IN ~(Len(code) = 1 /\ code[1].t \in KnownCodes)

\* C16 (as claimed): a live payload whose state-code field is present but
\* empty or not one of the eight known codes gives the removed (None)
\* outcome: no snapshot and no kill.
C16_UnknownCodeMeansRemoved ==
    \A t \in Threads :
      (LiveEnded(t) /\ frame[t].response.set
         /\ UnknownStateCode(frame[t].response.body))
      => ret[t].kind = "None" /\ pc[t] = "done" /\ alive

\* one of the three labels of endpoint B's cells is missing or different
LabelBad(b) ==
    \/ Len(b) < 1 \/ b[1].t # "industry group"
    \/ Len(b) < 3 \/ b[3].t # "industry subgroup code"
    \/ Len(b) < 5 \/ b[5].t # "industry subgroup"

\* C17: a body of endpoint A without the script block makes get_static_data
\* sleep and request endpoint A again, with no count of the attempts and
\* without raising; a missing or different label among endpoint B's cells
\* makes get_static_data raise in that step, with no other request, the
\* cache and the static records being what they were.
C17_RetriedAndFatalParseFailures ==
    [][ \A t \in Threads :
          /\ (pc[t] = "static_A" /\ frame'[t].got = "A" /\ ~frame'[t].a.script) =>
               /\ pc'[t] = "static_A_sleep"
               /\ ret'[t] = ret[t] /\ alive'
               /\ frame'[t].i = frame[t].i
               /\ cache' = cache /\ statics' = statics
          /\ (pc[t] = "static_A_sleep" /\ pc'[t] # pc[t]) =>
               pc'[t] = "static_A" /\ ret'[t] = ret[t] /\ cache' = cache
          /\ (pc[t] = "static_B" /\ frame[t].fn = "get_static_data"
                /\ frame'[t].got = "B" /\ LabelBad(frame'[t].b)) =>
               /\ pc'[t] = "done"
               /\ ret'[t].kind = "raise"
               /\ ret'[t].exc \in {"IndexError", "AssertionError", "ValueError"}
               /\ cache' = cache /\ statics' = statics ]_vars

\* C17 witness: with i1 cached, a later get_static_data(i1) met a different
\* label and raised AssertionError; the cache still holds the first record.
C17_Witness ==
    /\ pc["t1"] = "done"
    /\ frame["t1"].fn = "get_static_data" /\ frame["t1"].ins = "i1"
    /\ frame["t1"].got = "B" /\ LabelBad(frame["t1"].b)
    /\ ret["t1"] = [kind |-> "raise", ref |-> 0, exc |-> "AssertionError"]
    /\ cache["i1"] = 1 /\ Len(statics) = 1

====
